---------------------------- MODULE Spec2Model ----------------------------
(***************************************************************************)
(* Smart Contract Security Auditor (src/main.py).                          *)
(*                                                                         *)
(* Two parts of the program are modelled:                                  *)
(*   - the /audit handler audit_contract: get_llm, create_audit_crew, the  *)
(*     sequential kickoff of the four tasks, str(result), the parser and   *)
(*     the assembly of the AuditResult (specification Spec);               *)
(*   - the parser parse_crew_output on its own, applied to transcripts     *)
(*     assembled from sections of model output (specification SpecParse).  *)
(*                                                                         *)
(* Text is a sequence of tokens.  A token is a chunk of text that the      *)
(* regular expressions of the parser treat as a unit: a keyword literal    *)
(* (with the single space the literal ends in), a word, a run of digits,   *)
(* or one newline.  Tokens that do not end in a space are separated by one; *)
(* a RECOMMENDATIONS: header ends its line, as in the format the tasks ask  *)
(* for.  The regular expressions are kept as data and run by a             *)
(* backtracking matcher with the semantics of Python's re module (lazy     *)
(* groups shortest first, greedy \s* longest first, leftmost match).       *)
(***************************************************************************)
EXTENDS Integers, Sequences, FiniteSets, TLC

VARIABLES
    credential,      \* environment: GEMINI_API_KEY is configured
    int_limit,       \* environment: the interpreter limits int() of a string to 4300 digits
    pc,              \* position of the /audit handler
    running,         \* tasks whose Model Gateway call is in flight
    calls,           \* tasks for which a Model Gateway call was issued, in order
    task_outputs,    \* raw outputs of the tasks that returned, in order
    result_text,     \* the text handed to parse_crew_output
    parsed,          \* what parse_crew_output returned (or that it raised)
    response,        \* what the caller receives: nothing yet, an AuditResult or an HTTP error
    segments         \* SpecParse: the sections the transcript under test is made of

vars == <<credential, int_limit, pc, running, calls, task_outputs, result_text,
          parsed, response, segments>>

-----------------------------------------------------------------------------
(* Tokens *)

NL == "\n"
VULN_HDR == "VULNERABILITY 1: "
VULN_WORD == "vulnerability"
OPT_HDR == "OPTIMIZATION 1: "
DASH == " - "
DESC == "Description: "
FIX == "Fix: "
LOC == "Location: "
TECH == "Technique: "
SAV == "Savings: "
QS == "QUALITY SCORE: "
ISSUES == "ISSUES:"
RECS == "RECOMMENDATIONS:"
PRIO_RECS == "PRIORITY RECOMMENDATIONS:"
EXEC == "EXECUTIVE SUMMARY:"
COMPLIANCE == "COMPLIANCE: "
ITEM1 == "1."
ITEM2 == "2."
OVERLONG == "99999...(4301 digits)"

\* \d+ : the runs of digits of the alphabet
Digits == {"85", "150", OVERLONG}

\* (Critical|High|Medium|Low) under re.IGNORECASE
SeverityAlt == {"Critical", "critical", "High", "high", "Medium", "Low"}

\* str.lower()
Lower(s) ==
    CASE s = "Critical" -> "critical"
      [] s = "High" -> "high"
      [] s = "Medium" -> "medium"
      [] s = "Low" -> "low"
      [] OTHER -> s

\* tokens whose text starts with the keyword, in any case
StartsVULNERABILITY == {VULN_HDR, VULN_WORD}
StartsOPTIMIZATION == {OPT_HDR}
StartsQUALITY == {QS}
StartsEXECUTIVE == {EXEC}
StartsCOMPLIANCE == {COMPLIANCE}
\* tokens in which RECOMMENDATIONS?: occurs
HasRECOMMENDATIONS == {RECS, PRIO_RECS}
\* \d+\. : the markers of a numbered list
ItemMarker == {ITEM1, ITEM2}

-----------------------------------------------------------------------------
(* Regular expressions as data, and the matcher *)

Lit(toks) == [kind |-> "lit", toks |-> toks, cap |-> FALSE]
Cap(toks) == [kind |-> "lit", toks |-> toks, cap |-> TRUE]
Lazy == [kind |-> "lazy", toks |-> {}, cap |-> TRUE]       \* (.+?) with re.DOTALL
Ws == [kind |-> "ws", toks |-> {}, cap |-> FALSE]          \* \s*
Ahead(toks) == [kind |-> "ahead", toks |-> toks, cap |-> FALSE]  \* (?=...|$)

NoMatch == [ok |-> FALSE, end |-> 0, groups |-> <<>>]

\* $ without re.MULTILINE: the end of the text, or just before a final newline
AtEnd(t, pos) == pos = Len(t) + 1 \/ (pos = Len(t) /\ t[pos] = NL)

RECURSIVE CountWs(_, _)
CountWs(t, pos) == IF pos <= Len(t) /\ t[pos] = NL THEN 1 + CountWs(t, pos + 1) ELSE 0

\* The match of pat[pi..] at position pos of t: the first one in the order
\* Python's backtracking tries them.  end is the position after the match.
RECURSIVE MatchAt(_, _, _, _), TryLazy(_, _, _, _, _), TryWs(_, _, _, _, _)
MatchAt(pat, pi, t, pos) ==
    IF pi > Len(pat) THEN [ok |-> TRUE, end |-> pos, groups |-> <<>>]
    ELSE LET e == pat[pi] IN
      CASE e.kind = "lit" ->
             IF pos <= Len(t) /\ t[pos] \in e.toks
             THEN LET r == MatchAt(pat, pi + 1, t, pos + 1) IN
                  IF r.ok /\ e.cap
                  THEN [r EXCEPT !.groups = <<(<<t[pos]>>)>> \o r.groups]
                  ELSE r
             ELSE NoMatch
        [] e.kind = "ahead" ->
             IF AtEnd(t, pos) \/ (pos <= Len(t) /\ t[pos] \in e.toks)
             THEN MatchAt(pat, pi + 1, t, pos)
             ELSE NoMatch
        [] e.kind = "ws" -> TryWs(pat, pi, t, pos, CountWs(t, pos))
        [] e.kind = "lazy" -> TryLazy(pat, pi, t, pos, pos + 1)

TryLazy(pat, pi, t, start, end) ==
    IF end > Len(t) + 1 THEN NoMatch
    ELSE LET r == MatchAt(pat, pi + 1, t, end) IN
         IF r.ok
         THEN [r EXCEPT !.groups = <<SubSeq(t, start, end - 1)>> \o r.groups]
         ELSE TryLazy(pat, pi, t, start, end + 1)

TryWs(pat, pi, t, pos, n) ==
    LET r == MatchAt(pat, pi + 1, t, pos + n) IN
    IF r.ok \/ n = 0 THEN r ELSE TryWs(pat, pi, t, pos, n - 1)

\* re.findall: the groups of the non-overlapping matches, left to right
RECURSIVE FindAllFrom(_, _, _)
FindAllFrom(pat, t, pos) ==
    IF pos > Len(t) THEN <<>>
    ELSE LET r == MatchAt(pat, 1, t, pos) IN
         IF r.ok THEN <<r.groups>> \o FindAllFrom(pat, t, r.end)
         ELSE FindAllFrom(pat, t, pos + 1)

FindAll(pat, t) == FindAllFrom(pat, t, 1)

\* re.search: the leftmost match
RECURSIVE SearchFrom(_, _, _)
SearchFrom(pat, t, pos) ==
    IF pos > Len(t) THEN NoMatch
    ELSE LET r == MatchAt(pat, 1, t, pos) IN
         IF r.ok THEN r ELSE SearchFrom(pat, t, pos + 1)

Search(pat, t) == SearchFrom(pat, t, 1)

\* str.strip(): drop the whitespace at both ends
RECURSIVE LStrip(_), RStrip(_)
LStrip(s) == IF s # <<>> /\ Head(s) = NL THEN LStrip(Tail(s)) ELSE s
RStrip(s) == IF s # <<>> /\ s[Len(s)] = NL THEN RStrip(SubSeq(s, 1, Len(s) - 1)) ELSE s
Strip(s) == LStrip(RStrip(s))


-----------------------------------------------------------------------------
(* parse_crew_output *)

DefaultQualityScore == 70
SeverityCap == 10
CriticalWeight == 3
HighWeight == 2

\* the lookahead without VULNERABILITY: a Fix would run into the next block
vuln_stop_without_vulnerability == StartsOPTIMIZATION \cup StartsQUALITY \cup StartsEXECUTIVE

\* r'VULNERABILITY \d+: (.+?) - (Critical|High|Medium|Low)\s*Description: (.+?)\s*Fix: (.+?)
\*   (?=VULNERABILITY|OPTIMIZATION|QUALITY|EXECUTIVE|$)'
vuln_stop == StartsVULNERABILITY \cup StartsOPTIMIZATION \cup StartsQUALITY \cup StartsEXECUTIVE

vuln_severity == SeverityAlt

vuln_pattern ==
    <<Lit({VULN_HDR}), Lazy, Lit({DASH}), Cap(vuln_severity), Ws, Lit({DESC}), Lazy,
      Ws, Lit({FIX}), Lazy, Ahead(vuln_stop)>>

\* r'OPTIMIZATION \d+: (.+?)\s*Location: (.+?)\s*Technique: (.+?)\s*Savings: (.+?)
\*   (?=OPTIMIZATION|QUALITY|EXECUTIVE|$)'
opt_stop == StartsOPTIMIZATION \cup StartsQUALITY \cup StartsEXECUTIVE

opt_pattern ==
    <<Lit({OPT_HDR}), Lazy, Ws, Lit({LOC}), Lazy, Ws, Lit({TECH}), Lazy, Ws, Lit({SAV}),
      Lazy, Ahead(opt_stop)>>

\* r'QUALITY SCORE: (\d+)': the digits may be those of a list marker
score_pattern == <<Lit({QS}), Cap(Digits \cup ItemMarker)>>

\* r'RECOMMENDATIONS?:(.+?)(?=COMPLIANCE|EXECUTIVE|$)'
rec_pattern == <<Lit(HasRECOMMENDATIONS), Lazy, Ahead(StartsCOMPLIANCE \cup StartsEXECUTIVE)>>

\* r'\d+\.\s*(.+?)(?=\d+\.|$)'
item_pattern == <<Lit(ItemMarker), Ws, Lazy, Ahead(ItemMarker)>>

\* int(s) of a run of digits: its value, or ValueError when the interpreter limits
\* the conversion and the run is longer than the limit
IntOf(s, limit) ==
    CASE s = "85" -> [ok |-> TRUE, value |-> 85]
      [] s = "150" -> [ok |-> TRUE, value |-> 150]
      [] s = ITEM1 -> [ok |-> TRUE, value |-> 1]
      [] s = ITEM2 -> [ok |-> TRUE, value |-> 2]
      [] s = OVERLONG -> [ok |-> ~limit, value |-> 1000000000]
      [] OTHER -> [ok |-> FALSE, value |-> 0]

Vulnerability(m) ==
    [type |-> Strip(m[1]), severity |-> Strip(m[2]), lines |-> "Multiple",
     description |-> Strip(m[3]), exploit_scenario |-> "See description",
     recommendation |-> Strip(m[4])]

GasOptimization(m) ==
    [issue |-> Strip(m[1]), location |-> Strip(m[2]), current_cost |-> "N/A",
     potential_savings |-> Strip(m[4]), technique |-> Strip(m[3]), example |-> ""]

Min(a, b) == IF a <= b THEN a ELSE b

\* sum(1 for v in vulnerabilities if v['severity'].lower() == sev)
CountSeverity(vs, sev) ==
    Cardinality({i \in 1..Len(vs) : Lower(vs[i].severity[1]) = sev})

\* the score without its cap
SeverityScoreUncapped(vs) ==
    CountSeverity(vs, "critical") * CriticalWeight
    + CountSeverity(vs, "high") * HighWeight + Len(vs)

\* severity_score = min(10, critical_count * 3 + high_count * 2 + len(vulnerabilities))
SeverityScore(vs) ==
    Min(SeverityCap,
        CountSeverity(vs, "critical") * CriticalWeight
        + CountSeverity(vs, "high") * HighWeight + Len(vs))

Recommendations(result_text_) ==
    LET rec_match == Search(rec_pattern, result_text_) IN
    IF rec_match.ok
    THEN LET recs == FindAll(item_pattern, rec_match.groups[1])
             kept == SelectSeq(recs, LAMBDA r : Strip(r[1]) # <<>>)
         IN  [i \in 1..Len(kept) |-> Strip(kept[i][1])]
    ELSE <<>>

NoParse ==
    [raised |-> TRUE, vulnerabilities |-> <<>>, gas_optimizations |-> <<>>,
     security_recommendations |-> <<>>, code_quality_score |-> 0, severity_score |-> 0]

parse_crew_output(result_text_, limit) ==
    LET vuln_matches == FindAll(vuln_pattern, result_text_)
        vulnerabilities == [i \in 1..Len(vuln_matches) |-> Vulnerability(vuln_matches[i])]
        opt_matches == FindAll(opt_pattern, result_text_)
        gas_optimizations == [i \in 1..Len(opt_matches) |-> GasOptimization(opt_matches[i])]
        score_match == Search(score_pattern, result_text_)
        score == IF score_match.ok THEN IntOf(score_match.groups[1][1], limit)
                 ELSE [ok |-> TRUE, value |-> DefaultQualityScore]
    IN  IF ~score.ok THEN NoParse
        ELSE [raised |-> FALSE,
              vulnerabilities |-> vulnerabilities,
              gas_optimizations |-> gas_optimizations,
              security_recommendations |-> Recommendations(result_text_),
              code_quality_score |-> score.value,
              severity_score |-> SeverityScore(vulnerabilities)]

-----------------------------------------------------------------------------
(* Sections of model output, in the format the task descriptions ask for *)

\* VULNERABILITY 1: [Type] - [Severity] / Description: / Fix:
V_CRIT ==
    <<VULN_HDR, "Reentrancy", DASH, "Critical", NL,
      DESC, "External call before state update.", NL,
      FIX, "Use checks-effects-interactions.", NL, NL>>

\* a type with a dash in it, a lower-case severity, the word vulnerability in the fix
V_HIGH ==
    <<VULN_HDR, "Integer Overflow", DASH, "Underflow", DASH, "high", NL,
      DESC, "Unchecked arithmetic.", NL,
      FIX, "Patch the", VULN_WORD, "with SafeMath.", NL, NL>>

V_MEDIUM ==
    <<VULN_HDR, "Front-running", DASH, "Medium", NL,
      DESC, "Order dependence.", NL,
      FIX, "Use commit-reveal.", NL, NL>>

\* a severity outside Critical/High/Medium/Low
V_SEVERE ==
    <<VULN_HDR, "X", DASH, "Severe", NL,
      DESC, "Unprotected selfdestruct.", NL,
      FIX, "Restrict to owner.", NL, NL>>

\* a block cut off before its Fix line
V_TRUNCATED ==
    <<VULN_HDR, "Access Control", DASH, "Critical", NL,
      DESC, "Missing onlyOwner">>

\* OPTIMIZATION 1: [Issue] / Location: / Technique: / Savings:
O_LOOP ==
    <<OPT_HDR, "Storage read in loop", NL,
      LOC, "transfer()", NL,
      TECH, "Cache in memory", NL,
      SAV, "2000 gas", NL, NL>>

\* QUALITY SCORE: [0-100] / ISSUES: / RECOMMENDATIONS:
Q_85 ==
    <<QS, "85", NL, NL,
      ISSUES, NL, ITEM1, "No NatSpec comments", NL, NL,
      RECS, NL, ITEM1, "Add reentrancy guard", NL, ITEM2, "Increase test coverage", NL, NL>>

Q_150 == <<QS, "150", NL, NL>>

Q_OVERLONG == <<QS, OVERLONG, NL, NL>>

\* EXECUTIVE SUMMARY: / RISK LEVEL: / PRIORITY RECOMMENDATIONS: / COMPLIANCE:
E_SUMMARY ==
    <<EXEC, NL, "The contract is at risk.", NL, NL,
      "RISK LEVEL: High", NL, NL,
      PRIO_RECS, NL, ITEM1, "Fix the reentrancy", NL, NL,
      COMPLIANCE, "Not ERC-20 compliant", NL>>

\* output that ignores the format
PROSE == <<"I cannot analyze this contract.", NL>>

VulnBlocks == {V_CRIT, V_HIGH, V_MEDIUM}
OptBlocks == {O_LOOP}
QualitySections == {Q_85}
SummarySections == {E_SUMMARY}
Malformed == {V_SEVERE, V_TRUNCATED, Q_150, Q_OVERLONG, PROSE}
Sections == VulnBlocks \cup OptBlocks \cup QualitySections \cup SummarySections \cup Malformed

RECURSIVE Concat(_)
Concat(ss) == IF ss = <<>> THEN <<>> ELSE Head(ss) \o Concat(Tail(ss))

-----------------------------------------------------------------------------
(* SpecParse: parse_crew_output applied to transcripts made of sections *)

MaxSections == 3
MaxVulnBlocks == 10

Unparsed ==
    [raised |-> FALSE, vulnerabilities |-> <<>>, gas_optimizations |-> <<>>,
     security_recommendations |-> <<>>, code_quality_score |-> 0, severity_score |-> 0]

InitParse ==
    /\ credential = TRUE
    /\ int_limit \in BOOLEAN
    /\ pc = "building"
    /\ running = {}
    /\ calls = <<>>
    /\ task_outputs = <<>>
    /\ result_text = <<>>
    /\ parsed = Unparsed
    /\ response = [kind |-> "none"]
    /\ segments = <<>>

\* the transcript grows by one section; long transcripts are made of Critical and
\* High vulnerability blocks only
ExtendTranscript(s) ==
    /\ pc = "building"
    /\ \/ Len(segments) < MaxSections
       \/ /\ Len(segments) < MaxVulnBlocks
          /\ s \in {V_CRIT, V_HIGH}
          /\ \A i \in 1..Len(segments) : segments[i] \in {V_CRIT, V_HIGH}
    /\ segments' = Append(segments, s)
    /\ UNCHANGED <<credential, int_limit, pc, running, calls, task_outputs, result_text,
                   parsed, response>>

\* parse_crew_output(result_text)
Parse ==
    /\ pc = "building"
    /\ result_text' = Concat(segments)
    /\ parsed' = parse_crew_output(Concat(segments), int_limit)
    /\ pc' = "parsed"
    /\ UNCHANGED <<credential, int_limit, running, calls, task_outputs, response, segments>>

NextParse == (\E s \in Sections : ExtendTranscript(s)) \/ Parse

SpecParse == InitParse /\ [][NextParse]_vars

-----------------------------------------------------------------------------
(* Spec: the /audit handler audit_contract *)

\* get_llm: api_key = "GEMINI_API_KEY", a string literal, not os.getenv(...)
api_key == "GEMINI_API_KEY"

\* get_llm: if not api_key: raise ValueError(...)
get_llm_raises == api_key = ""

\* the tasks listed in another order
TasksMisordered == <<"gas", "vulnerability", "quality", "summary">>

\* Crew(tasks=[vulnerability_task, gas_optimization_task, code_quality_task, report_task],
\*      process=Process.sequential)
Tasks == <<"vulnerability", "gas", "quality", "summary">>

\* what the model may answer to a task: text in the format asked for, or not
TaskOutputs(task) ==
    CASE task = "vulnerability" -> {V_CRIT, V_CRIT \o V_HIGH, PROSE}
      [] task = "gas" -> {O_LOOP, PROSE}
      [] task = "quality" -> {Q_85, Q_150}
      [] task = "summary" -> {E_SUMMARY, E_SUMMARY \o Q_OVERLONG, PROSE}

Call(task) == [task |-> task, outcome |-> "in_flight"]

\* except Exception as e: raise HTTPException(status_code=500, detail=f"Audit failed: {str(e)}")
HTTPException(e) == [kind |-> "error", status |-> 500, cause |-> e]

\* str(result): the raw output of the crew, which is the output of its last task
StrResult(outputs) == outputs[Len(outputs)]

AuditResult(p, text) ==
    [kind |-> "AuditResult",
     severity_score |-> p.severity_score,
     vulnerabilities |-> p.vulnerabilities,
     gas_optimizations |-> p.gas_optimizations,
     security_recommendations |-> p.security_recommendations,
     code_quality_score |-> p.code_quality_score,
     detailed_report |-> text]

Init ==
    /\ credential \in BOOLEAN
    /\ int_limit \in BOOLEAN
    /\ pc = "pending"
    /\ running = {}
    /\ calls = <<>>
    /\ task_outputs = <<>>
    /\ result_text = <<>>
    /\ parsed = Unparsed
    /\ response = [kind |-> "none"]
    /\ segments = <<>>

\* POST /audit up to the first Model Gateway call: create_audit_crew (get_llm, the
\* agents, the tasks, the crew) and crew.kickoff() starting the first task
Submit ==
    /\ pc = "pending"
    /\ IF get_llm_raises
       THEN /\ pc' = "failed"
            /\ response' = HTTPException("ValueError")
            /\ UNCHANGED <<running, calls>>
       ELSE /\ pc' = "kickoff"
            /\ running' = {Tasks[1]}
            /\ calls' = <<Call(Tasks[1])>>
            /\ UNCHANGED response
    /\ UNCHANGED <<credential, int_limit, task_outputs, result_text, parsed, segments>>

\* The Model Gateway call of the running task returns out.  Process.sequential goes
\* on with the next task; after the last one kickoff returns and the handler parses
\* str(result) and assembles the AuditResult.
GatewayReturns(out) ==
    /\ pc = "kickoff"
    /\ running # {}
    /\ LET k == Len(calls)
           outputs == Append(task_outputs, out)
       IN  /\ out \in TaskOutputs(calls[k].task)
           /\ task_outputs' = outputs
           /\ IF k < Len(Tasks)
              THEN /\ running' = {Tasks[k + 1]}
                   /\ calls' = Append([calls EXCEPT ![k].outcome = "returned"],
                                      Call(Tasks[k + 1]))
                   /\ UNCHANGED <<pc, result_text, parsed, response>>
              ELSE /\ running' = {}
                   /\ calls' = [calls EXCEPT ![k].outcome = "returned"]
                   /\ result_text' = StrResult(outputs)
                   /\ parsed' = parse_crew_output(StrResult(outputs), int_limit)
                   /\ IF parsed'.raised
                      THEN /\ pc' = "failed"
                           /\ response' = HTTPException("ValueError")
                      ELSE /\ pc' = "complete"
                           /\ response' = AuditResult(parsed', result_text')
    /\ UNCHANGED <<credential, int_limit, segments>>

\* a failed task skipped: the crew goes on with the next task
GatewayFailsSkip ==
    /\ pc = "kickoff"
    /\ running # {}
    /\ LET k == Len(calls) IN
       IF k < Len(Tasks)
       THEN /\ running' = {Tasks[k + 1]}
            /\ calls' = Append([calls EXCEPT ![k].outcome = "failed"], Call(Tasks[k + 1]))
            /\ task_outputs' = Append(task_outputs, <<>>)
            /\ UNCHANGED <<pc, response>>
       ELSE /\ running' = {}
            /\ calls' = [calls EXCEPT ![k].outcome = "failed"]
            /\ pc' = "failed"
            /\ response' = HTTPException("GenerationError")
            /\ UNCHANGED task_outputs
    /\ UNCHANGED <<credential, int_limit, result_text, parsed, segments>>

\* The Model Gateway call of the running task fails: the exception leaves kickoff
\* and the handler's except clause answers with an HTTP error.
GatewayFails ==
    /\ pc = "kickoff"
    /\ running # {}
    /\ running' = {}
    /\ calls' = [calls EXCEPT ![Len(calls)].outcome = "failed"]
    /\ pc' = "failed"
    /\ response' = HTTPException("GenerationError")
    /\ UNCHANGED <<credential, int_limit, task_outputs, result_text, parsed, segments>>

Next ==
    \/ Submit
    \/ \E out \in UNION {TaskOutputs(Tasks[k]) : k \in 1..Len(Tasks)} : GatewayReturns(out)
    \/ GatewayFails

Spec == Init /\ [][Next]_vars

-----------------------------------------------------------------------------
(* Properties of the /audit handler (Spec) *)

InFlight == {i \in 1..Len(calls) : calls[i].outcome = "in_flight"}

C2_StagesSequential ==
    /\ Len(calls) <= 4
    /\ \A i \in 1..Len(calls) :
         calls[i].task = <<"vulnerability", "gas", "quality", "summary">>[i]
    /\ \A i \in 1..(Len(calls) - 1) : calls[i].outcome = "returned"
    /\ Len(task_outputs) = Cardinality({i \in 1..Len(calls) : calls[i].outcome = "returned"})
    /\ Cardinality(InFlight) <= 1
    /\ running = {calls[i].task : i \in InFlight}

\* the last stage is running, after the three before it returned
C2_Witness ==
    /\ Len(calls) = 4
    /\ running = {"summary"}
    /\ Len(task_outputs) = 3

\* C3, as claimed: when all four stages succeed, the text handed to the parser and
\* stored as detailed_report is the concatenation of the four raw outputs in stage
\* order.
C3_TranscriptIsConcatenation ==
    pc = "complete" =>
        /\ result_text = Concat(task_outputs)
        /\ response.detailed_report = Concat(task_outputs)

\* C6, as claimed: with no credential configured the audit fails with the
\* configuration error of get_llm before any Model Gateway call is made.
C6_NoCredentialNoCall ==
    ~credential =>
        /\ calls = <<>>
        /\ pc # "pending" => (pc = "failed" /\ response = HTTPException("ValueError"))

-----------------------------------------------------------------------------
(* Properties of parse_crew_output (SpecParse) *)

IsSeverity(v, names) == v.severity \in {<<n>> : n \in names}

\* C4: the severity score is min(10, 3 * critical + 2 * high + total) over the
\* vulnerabilities extracted, and so lies in 0..10.
C4_SeverityScoreFormula ==
    (pc = "parsed" /\ ~parsed.raised) =>
        LET vs == parsed.vulnerabilities
            critical == Len(SelectSeq(vs, LAMBDA v : IsSeverity(v, {"Critical", "critical"})))
            high == Len(SelectSeq(vs, LAMBDA v : IsSeverity(v, {"High", "high"})))
            raw == 3 * critical + 2 * high + Len(vs)
        IN  /\ parsed.severity_score = (IF raw > 10 THEN 10 ELSE raw)
            /\ parsed.severity_score \in 0..10

\* 5 Critical and 5 High vulnerabilities were extracted: the score is 10, not 25
C4_Witness ==
    /\ pc = "parsed"
    /\ Len(parsed.vulnerabilities) = 10
    /\ Cardinality({i \in 1..10 : parsed.vulnerabilities[i].severity = <<"Critical">>}) = 5
    /\ Cardinality({i \in 1..10 : parsed.vulnerabilities[i].severity = <<"high">>}) = 5
    /\ parsed.severity_score = 10

\* C5, as claimed: the quality score returned is in 0..100, and is 70 when the
\* transcript has no QUALITY SCORE: <int>.
C5_QualityScoreInRange ==
    (pc = "parsed" /\ ~parsed.raised) =>
        /\ parsed.code_quality_score \in 0..100
        /\ (\A i \in 1..Len(result_text) : result_text[i] # QS) =>
               parsed.code_quality_score = 70

\* C7, as claimed: the parser returns a result for every transcript, and for a
\* transcript with no matching section the lists are empty, the quality score is 70
\* and the severity score is 0.
C7_ParseIsTotal ==
    pc = "parsed" =>
        /\ ~parsed.raised
        /\ (\A i \in 1..Len(segments) : segments[i] = PROSE) =>
              /\ parsed.vulnerabilities = <<>>
              /\ parsed.gas_optimizations = <<>>
              /\ parsed.security_recommendations = <<>>
              /\ parsed.code_quality_score = 70
              /\ parsed.severity_score = 0

\* A transcript in the format of the stages: vulnerability blocks, then optimization
\* blocks, then at most one quality section, then at most one summary.
StageOf(s) ==
    CASE s \in VulnBlocks -> 1
      [] s \in OptBlocks -> 2
      [] s \in QualitySections -> 3
      [] s \in SummarySections -> 4
      [] OTHER -> 0

WellFormed(ss) ==
    /\ \A i \in 1..Len(ss) : StageOf(ss[i]) # 0
    /\ \A i, j \in 1..Len(ss) : i < j => StageOf(ss[i]) <= StageOf(ss[j])
    /\ Cardinality({i \in 1..Len(ss) : StageOf(ss[i]) = 3}) <= 1
    /\ Cardinality({i \in 1..Len(ss) : StageOf(ss[i]) = 4}) <= 1

\* the header line of a block: the text after the header keyword, up to the newline
RECURSIVE UpToNewline(_)
UpToNewline(s) == IF s = <<>> \/ Head(s) = NL THEN <<>> ELSE <<Head(s)>> \o UpToNewline(Tail(s))
HeaderLine(block) == UpToNewline(Tail(block))
\* [Type] - [Severity]: the severity is the last word, the type what precedes " - "
HeaderSeverity(block) == <<HeaderLine(block)[Len(HeaderLine(block))]>>
HeaderType(block) == SubSeq(HeaderLine(block), 1, Len(HeaderLine(block)) - 2)

\* C8: of a well-formed transcript the parser returns one vulnerability per
\* VULNERABILITY block and one optimization per OPTIMIZATION block, in transcript
\* order, with the type and severity (the issue) of the block's header line.
C8_BlocksExtracted ==
    (pc = "parsed" /\ WellFormed(segments)) =>
        LET vb == SelectSeq(segments, LAMBDA s : s \in VulnBlocks)
            ob == SelectSeq(segments, LAMBDA s : s \in OptBlocks)
        IN  /\ ~parsed.raised
            /\ Len(parsed.vulnerabilities) = Len(vb)
            /\ \A i \in 1..Len(vb) :
                 /\ parsed.vulnerabilities[i].type = HeaderType(vb[i])
                 /\ parsed.vulnerabilities[i].severity = HeaderSeverity(vb[i])
            /\ Len(parsed.gas_optimizations) = Len(ob)
            /\ \A i \in 1..Len(ob) : parsed.gas_optimizations[i].issue = HeaderLine(ob[i])

\* two vulnerability blocks and an optimization block were parsed
C8_Witness ==
    /\ pc = "parsed"
    /\ segments = <<V_CRIT, V_HIGH, O_LOOP>>
    /\ Len(parsed.vulnerabilities) = 2
    /\ Len(parsed.gas_optimizations) = 1

\* C9, as claimed: a VULNERABILITY block whose severity is not one of Critical,
\* High, Medium, Low gives one finding, with that severity verbatim.
C9_UnknownSeverityKept ==
    (pc = "parsed" /\ segments = <<V_SEVERE>>) =>
        /\ Len(parsed.vulnerabilities) = 1
        /\ parsed.vulnerabilities[1].severity = <<"Severe">>

\* C10, as claimed: the Savings of an optimization ends at the next VULNERABILITY,
\* OPTIMIZATION, QUALITY or EXECUTIVE header, so it holds no such header.
C10_SavingsEndAtHeaders ==
    pc = "parsed" =>
        \A i \in 1..Len(parsed.gas_optimizations) :
            LET savings == parsed.gas_optimizations[i].potential_savings IN
            \A j \in 1..Len(savings) : savings[j] \notin {VULN_HDR, OPT_HDR, QS, EXEC}

=============================================================================
